---- MODULE Spec2Model ----
(***************************************************************************)
(* Model of the image copy / rename / convert engine of                    *)
(* src/image_copy_tool_qt.py: the filename sanitizer, the stem index, the  *)
(* resolver (find_image_file), the output path allocator                   *)
(* (resolve_output_path) and the row loop of ImageTool.run.                *)
(*                                                                         *)
(* Strings are sequences of one-character strings, so that sanitizing,     *)
(* lower-casing, splitting a name into stem and suffix and appending _N    *)
(* are computed character by character as the Python code computes them.   *)
(***************************************************************************)
EXTENDS Integers, Sequences, FiniteSets, TLC

\* An optional value is a sequence of length at most one: Python's None (and
\* pandas' NaN for a missing cell) is the empty sequence, a value v is <<v>>.
None == <<>>
NaN == <<>>
Some(v) == <<v>>

-----------------------------------------------------------------------------
(* Bounds of the model *)

MaxRows == 2
MaxRuns == 2
MaxCands == 3
MaxSize == 2
MaxTaken == 3

-----------------------------------------------------------------------------
(* Python string primitives *)

IllegalChars == {"<", ">", ":", "\"", "/", "\\", "|", "?", "*"}

Whitespace == {" ", "\t"}

UpperToLower == [c \in {"A", "B", "G", "J", "N", "P", "W"} |->
                   CASE c = "A" -> "a" [] c = "B" -> "b" [] c = "G" -> "g"
                     [] c = "J" -> "j" [] c = "N" -> "n" [] c = "P" -> "p"
                     [] c = "W" -> "w"]

LowerChar(c) == IF c \in DOMAIN UpperToLower THEN UpperToLower[c] ELSE c

\* str.lower()
Lower(s) == [k \in 1..Len(s) |-> LowerChar(s[k])]

\* re.sub(r'[<>:"/\\|?*]', '', name)
RemoveIllegal(s) == SelectSeq(s, LAMBDA c : c \notin IllegalChars)

RECURSIVE LStrip(_)
LStrip(s) == IF s # <<>> /\ Head(s) \in Whitespace THEN LStrip(Tail(s)) ELSE s

RECURSIVE RStrip(_)
RStrip(s) == IF s # <<>> /\ s[Len(s)] \in Whitespace
               THEN RStrip(SubSeq(s, 1, Len(s) - 1))
               ELSE s

\* str.strip()
Strip(s) == RStrip(LStrip(s))

\* sanitize_filename
sanitize_filename(name) == Strip(RemoveIllegal(name))

Digits == <<"0", "1", "2", "3", "4", "5", "6", "7", "8", "9">>

\* str(i) of a non-negative integer, as the f-string formats it
RECURSIVE IntToStr(_)
IntToStr(n) == IF n < 10 THEN <<Digits[n + 1]>>
               ELSE IntToStr(n \div 10) \o <<Digits[(n % 10) + 1]>>

\* str.rfind('.') : the last index of a dot, 0 when there is none
LastDot(name) ==
  LET dots == {k \in 1..Len(name) : name[k] = "."}
  IN  IF dots = {} THEN 0 ELSE CHOOSE k \in dots : \A j \in dots : j <= k

\* pathlib: PurePath.suffix of a file name
Suffix(name) ==
  LET d == LastDot(name)
  IN  IF 1 < d /\ d < Len(name) THEN SubSeq(name, d, Len(name)) ELSE <<>>

\* pathlib: PurePath.stem of a file name
Stem(name) ==
  LET d == LastDot(name)
  IN  IF 1 < d /\ d < Len(name) THEN SubSeq(name, 1, d - 1) ELSE name

JPG == <<".", "j", "p", "g">>
PNG == <<".", "p", "n", "g">>
GIF == <<".", "g", "i", "f">>

\* the items of preferred_type_box
PreferredTypes == {JPG, PNG, GIF}

\* Path(s).name : the last component of a path string
RECURSIVE PathName(_)
PathName(s) ==
  LET seps == {k \in 1..Len(s) : s[k] = "/"}
  IN  IF s = <<>> THEN <<>>
      ELSE IF s[Len(s)] = "/" THEN PathName(SubSeq(s, 1, Len(s) - 1))
      ELSE IF seps = {} THEN s
      ELSE SubSeq(s, (CHOOSE k \in seps : \A j \in seps : j <= k) + 1, Len(s))

-----------------------------------------------------------------------------
(* Path Index Builder.  A file is [dir, name, size]; a listing is the       *)
(* sequence of files in the order base.rglob("*") enumerates them.          *)

IndexStem(file) == Lower(Stem(file.name))

\* the dict image_index after the loop over the listing: setdefault + append
IndexOf(listing) ==
  [s \in {IndexStem(listing[k]) : k \in 1..Len(listing)} |->
     SelectSeq(listing, LAMBDA f : IndexStem(f) = s)]

-----------------------------------------------------------------------------
(* Resolver *)

\* list.insert keeping the order sorted(..., reverse=True) gives: descending
\* size, elements of equal size in their original order (the sort is stable)
\* variant: an element goes before the elements of equal size (unstable order)
RECURSIVE InsertDescTiesLast(_, _)
InsertDescTiesLast(sorted, f) ==
  IF sorted = <<>> THEN <<f>>
  ELSE IF Head(sorted).size > f.size
         THEN <<Head(sorted)>> \o InsertDescTiesLast(Tail(sorted), f)
         ELSE <<f>> \o sorted

RECURSIVE InsertDesc(_, _)
InsertDesc(sorted, f) ==
  IF sorted = <<>> THEN <<f>>
  ELSE IF Head(sorted).size >= f.size
         THEN <<Head(sorted)>> \o InsertDesc(Tail(sorted), f)
         ELSE <<f>> \o sorted

RECURSIVE SortedBySizeDesc(_)
SortedBySizeDesc(cands) ==
  IF cands = <<>> THEN <<>>
  ELSE InsertDesc(SortedBySizeDesc(SubSeq(cands, 1, Len(cands) - 1)),
                  cands[Len(cands)])

NotFound == [path |-> None, fb |-> None]

\* variant: the suffix is compared with the preferred extension as it is spelled
find_image_file_CaseSensitive(index, pref, stem_arg) ==
  LET stem == Lower(stem_arg)
  IN  IF stem \notin DOMAIN index THEN NotFound
      ELSE LET candidates == index[stem]
               hits == {k \in 1..Len(candidates) : Suffix(candidates[k].name) = pref}
               fallback_files == SortedBySizeDesc(candidates)
           IN  IF hits # {}
                 THEN [path |-> Some(candidates[CHOOSE k \in hits :
                                                 \A j \in hits : k <= j]),
                       fb |-> Some(FALSE)]
               ELSE IF fallback_files # <<>>
                 THEN [path |-> Some(fallback_files[1]), fb |-> Some(TRUE)]
               ELSE NotFound

find_image_file(index, pref, stem_arg) ==
  LET stem == Lower(stem_arg)
  IN  IF stem \notin DOMAIN index THEN NotFound
      ELSE LET candidates == index[stem]
               hits == {k \in 1..Len(candidates) :
                          Lower(Suffix(candidates[k].name)) = pref}
               fallback_files == SortedBySizeDesc(candidates)
           IN  IF hits # {}
                 THEN [path |-> Some(candidates[CHOOSE k \in hits :
                                                 \A j \in hits : k <= j]),
                       fb |-> Some(FALSE)]
               ELSE IF fallback_files # <<>>
                 THEN [path |-> Some(fallback_files[1]), fb |-> Some(TRUE)]
               ELSE NotFound

-----------------------------------------------------------------------------
(* Output Path Allocator.  `existing` is the set of names present in the    *)
(* output directory; the result is a name in that directory.                *)

Candidate(base_name, n, ext) ==
  IF n = 0 THEN base_name \o ext
  ELSE base_name \o <<"_">> \o IntToStr(n) \o ext

\* variant: only the next name is tried, not the ones after it
FirstFreeNoProbe(existing, base_name, ext, n) ==
  IF Candidate(base_name, n, ext) \notin existing
    THEN Candidate(base_name, n, ext)
    ELSE Candidate(base_name, n + 1, ext)

RECURSIVE FirstFree(_, _, _, _)
FirstFree(existing, base_name, ext, n) ==
  IF Candidate(base_name, n, ext) \notin existing
    THEN Candidate(base_name, n, ext)
    ELSE FirstFree(existing, base_name, ext, n + 1)

\* variant: the name is built without looking at the directory
resolve_output_path_NoCheck(existing, base_name_arg, ext) ==
  Candidate(sanitize_filename(base_name_arg), 0, ext)

resolve_output_path(existing, base_name_arg, ext) ==
  LET base_name == sanitize_filename(base_name_arg)
  IN  FirstFree(existing, base_name, ext, 0)

get_safe_dest_path(existing, dest_name) ==
  IF dest_name \notin existing THEN dest_name
  ELSE FirstFree(existing, Stem(dest_name), Suffix(dest_name), 1)

-----------------------------------------------------------------------------
(* State *)

VARIABLES
  df,                 \* the loaded dataset: None, or Some(sequence of rows)
  image_col,          \* image_col.currentText()
  newname_col,        \* newname_col.currentText()
  vendor_col,         \* vendor_col.currentText()
  vendor_value,       \* vendor_value.currentText()
  base_edit,          \* base_edit.text()
  out_edit,           \* out_edit.text()
  preferred_ext,      \* self.preferred_ext
  fallback_mode,      \* self.fallback_mode
  preview_toggle,     \* preview_toggle.currentText()
  convert_all_mode,   \* self.convert_all_mode
  prevConvertAll,     \* convert_all_mode as the previous run left it
  prevRun,            \* what the previous run of this session did, None if none
  image_index,        \* self.image_index
  baseFiles,          \* the files under the base folder
  outExists,          \* the output directory exists on disk
  outMade,            \* the last run that started found no output directory
  outFiles,           \* the output directory: name -> content
  pc,                 \* where run() is: idle, rows, done, cancelled, rejected
  rows,               \* run(): rows (after the vendor filter)
  i,                  \* run(): index of the next row of the loop
  rename_enabled,     \* run(): rename_enabled
  copied_original,
  copied_renamed,
  converted_original,
  converted_renamed,
  not_found_rows,     \* run(): indices of the rows appended to not_found_rows
  summary,            \* the final counters emitted by the run, None if not emitted
  trace,              \* what the current run did for each row it reached
  runsLeft,           \* how many more times the user will press Run
  probe               \* the last direct call of a pure operation and its result

config == <<df, image_col, newname_col, vendor_col, vendor_value, base_edit,
            out_edit, preferred_ext, fallback_mode, preview_toggle>>
disk == <<baseFiles, outExists, outFiles>>
counters == <<copied_original, copied_renamed, converted_original,
              converted_renamed>>
locals == <<pc, rows, i, rename_enabled, counters, not_found_rows, summary,
            trace, runsLeft>>
vars == <<config, convert_all_mode, prevConvertAll, prevRun, image_index, disk,
          outMade, locals, probe>>

-----------------------------------------------------------------------------
(* Fixed texts of the program *)

ShowPreview == "Show preview before overwriting"
NoPreview == "Do not show preview"
AllVendors == "All Vendors"
LogName == <<"p", "r", "o", "c", "e", "s", "s", "_", "l", "o", "g", ".", "t", "x", "t">>
ReportName == <<"n", "o", "t", "_", "f", "o", "u", "n", "d", "_", "i", "m", "a", "g",
                "e", "s", ".", "x", "l", "s", "x">>

\* ConversionDialog.result_code after exec(): the four buttons, or None when
\* the dialog is closed without pressing any of them
ConvertCode == 1
ConvertAllCode == 2
SkipCode == 0
CancelCode == 0 - 1
DialogResults == {Some(ConvertCode), Some(ConvertAllCode), Some(SkipCode),
                  Some(CancelCode), None}

\* the content a write leaves in a file of the output directory
Content(how, src) == [how |-> how, src |-> src]

WriteFile(files, name, content) ==
  [n \in DOMAIN files \cup {name} |-> IF n = name THEN content ELSE files[n]]

\* a directory of the disk exists
BaseExists(path) == path = <<"b">>

\* the output directory is a subfolder of the base folder, so that
\* base.rglob("*") also enumerates the files of the output directory
Under(out, base) ==
  /\ Len(out) > Len(base) + 1
  /\ SubSeq(out, 1, Len(base)) = base
  /\ out[Len(base) + 1] = "/"

\* st_size of a file of the output directory: copy2 and convert_image write
\* the bytes of the source (a re-encoded file is taken to have the size of
\* its source), the log and the report are small files
SizeOnDisk(content) ==
  IF content.src # <<>> THEN content.src[1].size ELSE 1

\* the files of the output directory as rglob yields them
OutDirFiles ==
  {[dir |-> "o", name |-> n, size |-> SizeOnDisk(outFiles[n])] :
     n \in DOMAIN outFiles}

-----------------------------------------------------------------------------
(* build_image_index *)

\* the orders in which a set of files may be enumerated
Orderings(files) ==
  {l \in [1..Cardinality(files) -> files] :
     \A j, k \in 1..Cardinality(files) : j # k => l[j] # l[k]}

\* the orders in which base.rglob("*") may enumerate a set of files.  The
\* index keeps the order of the files of one stem only, so the listings are
\* taken stem after stem, with the files of a stem in every order.
RECURSIVE Listings(_)
Listings(files) ==
  IF files = {} THEN {<<>>}
  ELSE LET stem == IndexStem(CHOOSE f \in files : TRUE)
           group == {f \in files : IndexStem(f) = stem}
       IN  {first \o rest : first \in Orderings(group),
                            rest \in Listings(files \ group)}

\* variant: the base folder is not looked for on disk
BuildOkNoExistsCheck == Strip(base_edit) # <<>>

\* TRUE when the index was built, FALSE after a warning
BuildOk == LET base_path == Strip(base_edit)
           IN  base_path # <<>> /\ BaseExists(base_path)

\* the regular files base.rglob("*") finds
FilesUnderBase ==
  baseFiles \cup (IF outExists /\ Under(out_edit, Strip(base_edit))
                    THEN OutDirFiles ELSE {})

build_image_index ==
  IF BuildOk
    THEN \E listing \in Listings(FilesUnderBase) : image_index' = IndexOf(listing)
    ELSE UNCHANGED image_index

-----------------------------------------------------------------------------
(* run(): validation and set-up, lines 561-627 *)

VendorFilter(data) ==
  IF vendor_col # <<>> /\ vendor_value # AllVendors
    THEN SelectSeq(data, LAMBDA row : row.vendor = vendor_value)
    ELSE data

Idle == pc \in {"idle", "done", "cancelled", "rejected"}

RunValid ==
  /\ df # None
  /\ image_col # <<>>
  /\ Strip(out_edit) # <<>>
  /\ BuildOk

\* variant: the flag of the previous run is kept
KeepConvertAll == UNCHANGED convert_all_mode

\* line 562
ResetConvertAll == convert_all_mode' = FALSE

\* variant: the output folder field is not looked at
MissingInputNoOutCheck == df = None \/ image_col = <<>>

\* lines 564-578: the three warnings that end run() before the index is built
MissingInput ==
  df = None \/ image_col = <<>> \/ Strip(out_edit) = <<>>

StartRun ==
  /\ Idle
  /\ runsLeft > 0
  /\ runsLeft' = runsLeft - 1
  /\ prevConvertAll' = convert_all_mode
  /\ prevRun' = IF pc = "idle" THEN None
                ELSE Some([pc |-> pc, trace |-> trace, image_index |-> image_index,
                           counters |-> counters, not_found_rows |-> not_found_rows])
  /\ ResetConvertAll
  /\ IF MissingInput
       THEN /\ pc' = "rejected"
            /\ UNCHANGED <<image_index, disk, outMade, rows, i, rename_enabled,
                           counters, not_found_rows, summary, trace>>
       ELSE /\ build_image_index
            /\ IF ~BuildOk
                 THEN /\ pc' = "rejected"
                      /\ UNCHANGED <<disk, outMade, rows, i, rename_enabled,
                                     counters, not_found_rows, summary, trace>>
                 ELSE /\ rename_enabled' = (newname_col # <<>> /\ Strip(newname_col) # <<>>)
                      /\ copied_original' = 0
                      /\ copied_renamed' = 0
                      /\ converted_original' = 0
                      /\ converted_renamed' = 0
                      /\ not_found_rows' = <<>>
                      /\ outExists' = TRUE
                      /\ outMade' = ~outExists
                      /\ outFiles' = WriteFile(IF outExists THEN outFiles ELSE <<>>,
                                               LogName, Content("log", None))
                      /\ rows' = VendorFilter(df[1])
                      /\ i' = 1
                      /\ summary' = None
                      /\ trace' = <<>>
                      /\ pc' = "rows"
                      /\ UNCHANGED baseFiles
  /\ UNCHANGED <<config, probe>>

-----------------------------------------------------------------------------
(* run(): one iteration of the row loop, lines 629-749 *)

\* lines 641-649
OutputStem(row, enabled, original_stem) ==
  IF enabled
    THEN LET new_value == row.newname
         IN  IF new_value # NaN /\ Strip(new_value[1]) # <<>>
               THEN sanitize_filename(Strip(new_value[1]))
               ELSE original_stem
    ELSE original_stem

\* what the run did for row i: the log lines of the row, plus whether the
\* Resolver was called and what the dialog, if shown, returned
Entry(outcome, stems, found, prompt, dest) ==
  [row |-> i, outcome |-> outcome,
   resolved |-> stems # None,
   original_stem |-> IF stems = None THEN None ELSE Some(stems[1][1]),
   output_stem |-> IF stems = None THEN None ELSE Some(stems[1][2]),
   src |-> found.path, was_fallback |-> found.fb,
   prompt |-> prompt, dest |-> dest]

\* not_found_rows.append(row); the loop goes on with the next row
MarkNotFound(outcome, stems, found, prompt) ==
  /\ not_found_rows' = Append(not_found_rows, i)
  /\ trace' = Append(trace, Entry(outcome, stems, found, prompt, None))
  /\ i' = i + 1
  /\ UNCHANGED <<pc, counters, outFiles>>

\* lines 667, 718, 730: the bucket of the tally
CountsAsRenamed(row) == rename_enabled

\* shutil.copy2 / convert_image to dest_path, then the tally of lines 667-670,
\* 718-721 and 730-733
WriteAndCount(how, stems, found, prompt, dest) ==
  /\ outFiles' = WriteFile(outFiles, dest, Content(how, found.path))
  /\ trace' = Append(trace, Entry(how, stems, found, prompt, Some(dest)))
  /\ IF how = "convert"
       THEN /\ converted_renamed' = converted_renamed + (IF CountsAsRenamed(rows[i]) THEN 1 ELSE 0)
            /\ converted_original' = converted_original + (IF CountsAsRenamed(rows[i]) THEN 0 ELSE 1)
            /\ UNCHANGED <<copied_original, copied_renamed>>
       ELSE /\ copied_renamed' = copied_renamed + (IF CountsAsRenamed(rows[i]) THEN 1 ELSE 0)
            /\ copied_original' = copied_original + (IF CountsAsRenamed(rows[i]) THEN 0 ELSE 1)
            /\ UNCHANGED <<converted_original, converted_renamed>>
  /\ i' = i + 1
  /\ UNCHANGED <<pc, not_found_rows>>

\* variant: a skipped row is also appended to the not-found rows
SkipRowAsNotFound(stems, found, prompt) ==
  /\ i' = i + 1
  /\ not_found_rows' = Append(not_found_rows, i)
  /\ trace' = Append(trace, Entry("skip", stems, found, prompt, None))
  /\ UNCHANGED <<pc, counters, outFiles>>

\* lines 699-702: continue
SkipRow(stems, found, prompt) ==
  /\ i' = i + 1
  /\ trace' = Append(trace, Entry("skip", stems, found, prompt, None))
  /\ UNCHANGED <<pc, counters, not_found_rows, outFiles>>

\* variant: Cancel All only skips the row
CancelRunGoesOn(stems, found, prompt) ==
  /\ i' = i + 1
  /\ trace' = Append(trace, Entry("cancel", stems, found, prompt, None))
  /\ UNCHANGED <<pc, counters, not_found_rows, outFiles>>

\* lines 694-697: return
CancelRun(stems, found, prompt) ==
  /\ pc' = "cancelled"
  /\ trace' = Append(trace, Entry("cancel", stems, found, prompt, None))
  /\ UNCHANGED <<i, counters, not_found_rows, outFiles>>

\* variant: the dialog is shown in every fallback mode
ShowsDialogAnyMode ==
  /\ ~convert_all_mode
  /\ preview_toggle = ShowPreview

\* lines 676-683: the ConversionDialog is shown for a fallback
ShowsDialog ==
  /\ fallback_mode \in {"convert", "copy"}
  /\ fallback_mode = "convert"
  /\ ~convert_all_mode
  /\ preview_toggle = ShowPreview

\* line 633: pd.isna(raw_path)
IsEmptyPath(raw_path) == raw_path = NaN

ProcessRow ==
  /\ pc = "rows"
  /\ i <= Len(rows)
  /\ \E result \in (IF ShowsDialog THEN DialogResults ELSE {None}) :
       LET row == rows[i]
           raw_path == row.img
       IN
       IF IsEmptyPath(raw_path)
         THEN /\ MarkNotFound("empty", None, NotFound, None)
              /\ UNCHANGED convert_all_mode
         ELSE
           LET filename == PathName(raw_path[1])
               original_stem == Lower(Stem(filename))
               output_stem == OutputStem(row, rename_enabled, original_stem)
               stems == Some(<<original_stem, output_stem>>)
               found == find_image_file(image_index, preferred_ext, original_stem)
           IN
           IF found.path = None
             THEN /\ MarkNotFound("not_found", stems, found, None)
                  /\ UNCHANGED convert_all_mode
             ELSE
               LET src_path == found.path[1]
                   was_fallback == found.fb[1]
                   dest_path == resolve_output_path(DOMAIN outFiles, output_stem,
                                                    preferred_ext)
                   shown == was_fallback /\ ShowsDialog
                   prompt == IF shown THEN Some(result) ELSE None
               IN
               IF ~was_fallback
                 THEN /\ WriteAndCount("copy", stems, found, None, dest_path)
                      /\ UNCHANGED convert_all_mode
               ELSE IF shown /\ result = Some(CancelCode)
                 THEN /\ CancelRun(stems, found, prompt)
                      /\ UNCHANGED convert_all_mode
               ELSE IF shown /\ result = Some(SkipCode)
                 THEN /\ SkipRow(stems, found, prompt)
                      /\ UNCHANGED convert_all_mode
               ELSE
                 /\ convert_all_mode' = IF shown /\ result = Some(ConvertAllCode)
                                          THEN TRUE ELSE convert_all_mode
                 /\ IF fallback_mode = "convert"
                      THEN WriteAndCount("convert", stems, found, prompt, dest_path)
                    ELSE IF fallback_mode = "copy"
                      THEN WriteAndCount("copy", stems, found, prompt, dest_path)
                    ELSE MarkNotFound("not_found", stems, found, prompt)
  /\ UNCHANGED <<config, prevConvertAll, prevRun, image_index, baseFiles,
                 outExists, outMade, rows, rename_enabled, summary, runsLeft,
                 probe>>

-----------------------------------------------------------------------------
(* run(): after the loop, lines 751-788 *)

Finalize ==
  /\ pc = "rows"
  /\ i > Len(rows)
  /\ pc' = "done"
  /\ IF not_found_rows # <<>>
       THEN /\ outFiles' = WriteFile(outFiles, ReportName,
                                     Content("report", None))
            /\ summary' = Some([total |-> Len(rows),
                                copied_original |-> copied_original,
                                copied_renamed |-> copied_renamed,
                                converted_original |-> converted_original,
                                converted_renamed |-> converted_renamed,
                                not_found |-> Len(not_found_rows)])
       ELSE UNCHANGED <<outFiles, summary>>
  /\ UNCHANGED <<config, convert_all_mode, prevConvertAll, prevRun, image_index,
                 baseFiles, outExists, outMade, rows, i, rename_enabled, counters,
                 not_found_rows, trace, runsLeft, probe>>

-----------------------------------------------------------------------------
(* The inputs of the model: a base folder, datasets, settings *)

File(dir, name, size) == [dir |-> dir, name |-> name, size |-> size]

\* a.jpg, b.PNG, sub/b.gif (same size as b.PNG) and " .png"
BaseFolder ==
  { File("", <<"a">> \o JPG, 1),
    File("", <<"b", ".", "P", "N", "G">>, 1),
    File("sub", <<"b">> \o GIF, 1),
    File("", <<" ">> \o PNG, 1) }

Row(img, newname, vendor) == [img |-> img, newname |-> newname, vendor |-> vendor]

RowPool ==
  { Row(Some(<<"x", "/", "A">> \o JPG), NaN, "v1"),
    Row(Some(<<"b">> \o JPG), Some(<<"w">>), "v1"),
    Row(Some(<<"B">> \o PNG), Some(<<"?", "*">>), "v2"),
    Row(Some(<<" ">>), Some(<<" ">>), "v1"),
    Row(Some(<<>>), Some(<<"a", " ">>), "v2"),
    Row(NaN, Some(<<"w">>), "v1") }

\* the rows of the datasets that are run more than once
RerunPool ==
  { Row(Some(<<"x", "/", "A">> \o JPG), NaN, "v1"),
    Row(Some(<<"b">> \o JPG), Some(<<"w">>), "v1") }

SeqsUpTo(pool, n) == UNION {[1..k -> pool] : k \in 0..n}

\* files already in the output directory before the first run
OldFile == Content("old", None)

OldOutputs(ext) ==
  { <<>>,
    [n \in {Candidate(<<"a">>, 0, ext), Candidate(<<"w">>, 0, ext),
            Candidate(<<"w">>, 1, ext)} |-> OldFile] }

NoProbe == [op |-> "none"]

InitRunState ==
  /\ convert_all_mode = FALSE
  /\ prevConvertAll = FALSE
  /\ prevRun = None
  /\ outMade = FALSE
  /\ pc = "idle"
  /\ rows = <<>>
  /\ i = 0
  /\ rename_enabled = FALSE
  /\ copied_original = 0
  /\ copied_renamed = 0
  /\ converted_original = 0
  /\ converted_renamed = 0
  /\ not_found_rows = <<>>
  /\ summary = None
  /\ trace = <<>>

DefaultSettings ==
  /\ preferred_ext = JPG
  /\ fallback_mode = "convert"
  /\ preview_toggle = ShowPreview

\* the window after construction and after the user has filled the form
Init ==
  /\ InitRunState
  /\ probe = NoProbe
  /\ image_index = <<>>
  /\ baseFiles = BaseFolder
  /\ runsLeft \in 1..MaxRuns
  /\ df \in {None} \cup {Some(d) : d \in SeqsUpTo(RowPool, MaxRows)}
  /\ image_col \in {<<>>, <<"I">>}
  /\ newname_col \in {<<>>, <<"N">>}
  /\ vendor_col \in {<<>>, <<"V">>}
  /\ vendor_value \in {AllVendors, "v1"}
  /\ vendor_col = <<>> <=> vendor_value = AllVendors
  /\ base_edit \in {<<>>, <<"b">>, <<"x">>}
  /\ out_edit \in {<<>>, <<" ">>, <<"o">>, <<"b", "/", "o">>}
  /\ preferred_ext \in PreferredTypes
  /\ fallback_mode \in {"none", "copy", "convert"}
  /\ preview_toggle \in {ShowPreview, NoPreview}
  /\ preview_toggle = NoPreview => fallback_mode = "convert"
  /\ outExists \in BOOLEAN
  /\ outFiles \in (IF outExists THEN OldOutputs(preferred_ext) ELSE {<<>>})
  \* a form that run() rejects, a vendor filter and a missing output
  \* directory are explored with the default settings
  /\ ~RunValid =>
       /\ df \in {None} \cup {Some(d) : d \in SeqsUpTo(RerunPool, MaxRows)}
       /\ newname_col = <<>>
  /\ (~RunValid \/ vendor_col # <<>> \/ ~outExists) => DefaultSettings
  \* several runs in a row are explored on the datasets of RerunPool
  /\ runsLeft > 1 =>
       /\ RunValid /\ vendor_col = <<>>
       /\ outExists /\ outFiles = <<>>
       /\ preferred_ext = JPG /\ fallback_mode # "none"
       /\ df \in {Some(d) : d \in SeqsUpTo(RerunPool, MaxRows)}
  \* an output directory inside the base folder is explored on these too, for
  \* two runs with no dialog
  /\ Under(out_edit, base_edit) =>
       /\ runsLeft = 2
       /\ fallback_mode = "convert" => preview_toggle = NoPreview

Next == StartRun \/ ProcessRow \/ Finalize

Spec == Init /\ [][Next]_vars

-----------------------------------------------------------------------------
(* Direct calls of the Resolver and of the Output Path Allocator, on        *)
(* indexes and output directories drawn from bounded sets.                  *)

PathPool ==
  { <<"", <<"a">> \o JPG>>,
    <<"", <<"a", ".", "J", "P", "G">>>>,
    <<"sub", <<"a">> \o PNG>>,
    <<"", <<"A">> \o GIF>>,
    <<"", <<"b">> \o PNG>> }

FilePool == {File(p[1], p[2], size) : p \in PathPool, size \in 1..MaxSize}

\* listings of at most MaxCands files, no path twice
ListingPool ==
  {l \in SeqsUpTo(FilePool, MaxCands) :
     \A j, k \in 1..Len(l) : j # k => <<l[j].dir, l[j].name>> # <<l[k].dir, l[k].name>>}

StemPool == {<<"a">>, <<"A">>, <<"b">>, <<"c">>}

BaseNamePool == {<<"a">>, <<"a", "_", "1">>, <<"a", "?">>, <<" ", "a", "*">>, <<"?">>}

\* output directories holding some of a.jpg, a_1.jpg, a_2.jpg, ..., or the
\* first eleven of them
TakenPool ==
  {[n \in {Candidate(<<"a">>, k, JPG) : k \in K} |-> OldFile] :
     K \in (SUBSET (0..MaxTaken)) \cup {0..10}}

PureDefaults ==
  /\ InitRunState
  /\ probe = NoProbe
  /\ df = None
  /\ image_col = <<>> /\ newname_col = <<>> /\ vendor_col = <<>>
  /\ vendor_value = AllVendors
  /\ base_edit = <<"b">> /\ out_edit = <<"o">>
  /\ fallback_mode = "convert" /\ preview_toggle = ShowPreview
  /\ runsLeft = 0
  /\ outExists = TRUE

\* an index built from a listing of ListingPool
ResolverInit ==
  /\ PureDefaults
  /\ preferred_ext \in PreferredTypes
  /\ outFiles = <<>>
  /\ \E listing \in ListingPool :
       /\ baseFiles = {listing[k] : k \in 1..Len(listing)}
       /\ image_index = IndexOf(listing)

\* an output directory of TakenPool
AllocatorInit ==
  /\ PureDefaults
  /\ preferred_ext = JPG
  /\ baseFiles = {}
  /\ image_index = <<>>
  /\ outFiles \in TakenPool

PureFrame == UNCHANGED <<config, convert_all_mode, prevConvertAll, prevRun,
                         image_index, baseFiles, outExists, outMade, locals>>

CallFind ==
  /\ \E stem \in StemPool :
       probe' = [op |-> "find", stem |-> stem,
                 result |-> find_image_file(image_index, preferred_ext, stem)]
  /\ UNCHANGED outFiles
  /\ PureFrame

CallResolve ==
  /\ \E base_name \in BaseNamePool, ext \in {JPG, <<>>} :
       probe' = [op |-> "resolve", base_name |-> base_name, ext |-> ext,
                 existing |-> DOMAIN outFiles,
                 result |-> resolve_output_path(DOMAIN outFiles, base_name, ext)]
  /\ UNCHANGED outFiles
  /\ PureFrame

CallSafeDest ==
  /\ \E base_name \in BaseNamePool, ext \in {JPG, <<>>} :
       probe' = [op |-> "safe", dest_name |-> base_name \o ext,
                 existing |-> DOMAIN outFiles,
                 result |-> get_safe_dest_path(DOMAIN outFiles, base_name \o ext)]
  /\ UNCHANGED outFiles
  /\ PureFrame

\* the caller creates the file at the path the allocator returned
CreateResolved ==
  /\ probe.op = "resolve"
  /\ Cardinality(DOMAIN outFiles) < MaxTaken + 1
  /\ outFiles' = WriteFile(outFiles, probe.result, Content("created", None))
  /\ probe' = [op |-> "create", name |-> probe.result]
  /\ PureFrame

ResolverNext == CallFind

ResolverSpec == ResolverInit /\ [][ResolverNext]_vars

AllocatorNext == CallResolve \/ CallSafeDest \/ CreateResolved

AllocatorSpec == AllocatorInit /\ [][AllocatorNext]_vars

-----------------------------------------------------------------------------
(* Claims about the Resolver (ResolverSpec) and the Allocator (AllocatorSpec) *)

\* a == b for two strings compared case-insensitively
EqualsIgnoreCase(a, b) == Lower(a) = Lower(b)

\* the positions of the candidates that have the preferred extension
PreferredAt(cands) ==
  {k \in 1..Len(cands) : EqualsIgnoreCase(Suffix(cands[k].name), preferred_ext)}

MinOf(S) == CHOOSE k \in S : \A j \in S : k <= j

\* C2: whenever the candidate list of the stem holds a file whose extension
\* equals the preferred extension case-insensitively, find_image_file returns
\* the first such file with is_fallback = false, whatever the other candidates
\* and their sizes; and it returns (none, none) exactly when the (lower-cased)
\* stem has no entry in the index.
C2_PreferenceLaw ==
  probe.op = "find" =>
    LET stem == Lower(probe.stem)
        r == probe.result
    IN  /\ (r.path = None /\ r.fb = None) <=> (stem \notin DOMAIN image_index)
        /\ (stem \in DOMAIN image_index /\ PreferredAt(image_index[stem]) # {}) =>
             /\ r.fb = Some(FALSE)
             /\ r.path = Some(image_index[stem][MinOf(PreferredAt(image_index[stem]))])

\* a preferred file spelled .JPG is returned although a larger file of another
\* type comes first in the list
C2_Witness ==
  /\ probe.op = "find"
  /\ probe.result.fb = Some(FALSE)
  /\ LET cands == image_index[Lower(probe.stem)]
     IN  /\ Len(cands) >= 2
         /\ cands[1].size > probe.result.path[1].size
         /\ cands[1] # probe.result.path[1]
         /\ Suffix(probe.result.path[1].name) # preferred_ext

\* C3: for a stem present in the index with no candidate of the preferred
\* extension, find_image_file returns with is_fallback = true the candidate of
\* maximum size, and among several of maximum size the first in list order.
C3_FallbackLaw ==
  probe.op = "find" =>
    LET stem == Lower(probe.stem)
        r == probe.result
    IN  (stem \in DOMAIN image_index /\ PreferredAt(image_index[stem]) = {}) =>
          LET cands == image_index[stem]
              largest == {k \in 1..Len(cands) :
                            \A j \in 1..Len(cands) : cands[j].size <= cands[k].size}
          IN  /\ r.fb = Some(TRUE)
              /\ r.path = Some(cands[MinOf(largest)])

\* a fallback chosen among two candidates of the same, maximum size that come
\* after a smaller one
C3_Witness ==
  /\ probe.op = "find"
  /\ probe.result.fb = Some(TRUE)
  /\ LET cands == image_index[Lower(probe.stem)]
     IN  /\ Len(cands) = 3
         /\ cands[1].size < cands[2].size
         /\ cands[2].size = cands[3].size
         /\ probe.result.path[1] = cands[2]

\* the k-th name of the sequence name.ext, name_1.ext, name_2.ext, ...
SequenceName(name, k, ext) ==
  IF k = 0 THEN name \o ext ELSE name \o <<"_">> \o IntToStr(k) \o ext

FirstAbsent(existing, name, ext) ==
  SequenceName(name, MinOf({k \in 0..Cardinality(existing) :
                              SequenceName(name, k, ext) \notin existing}), ext)

\* C4: resolve_output_path returns the first path of name.ext, name_1.ext,
\* name_2.ext, ... that does not exist at call time (name being the base name,
\* which the allocator takes pre-sanitized; a name that is not is sanitized
\* first); it never returns an existing path; and after name.ext is created,
\* with name_1.ext absent, the next call returns name_1.ext.
C4_Allocator ==
  probe.op = "resolve" =>
    /\ probe.result \notin probe.existing
    /\ (sanitize_filename(probe.base_name) = probe.base_name =>
          probe.result = FirstAbsent(probe.existing, probe.base_name, probe.ext))
    /\ probe.result = FirstAbsent(probe.existing, sanitize_filename(probe.base_name),
                                  probe.ext)
    /\ (/\ SequenceName(probe.base_name, 0, probe.ext) \in probe.existing
        /\ SequenceName(probe.base_name, 1, probe.ext) \notin probe.existing
        /\ sanitize_filename(probe.base_name) = probe.base_name)
       => probe.result = SequenceName(probe.base_name, 1, probe.ext)

\* C4, second part: two consecutive calls for the same name with no file
\* created in between return the same path.
C4_SameAnswerTwice ==
  [][(/\ probe.op = "resolve" /\ probe'.op = "resolve"
      /\ probe'.base_name = probe.base_name /\ probe'.ext = probe.ext)
     => probe'.result = probe.result]_vars

\* the allocator is called for a name whose file it had allocated before and
\* the caller created: it answers name_1.ext
C4_Witness ==
  /\ probe.op = "resolve"
  /\ probe.base_name = <<"a", "_", "1">>
  /\ probe.ext = JPG
  /\ probe.result = <<"a", "_", "1", "_", "1">> \o JPG
  /\ outFiles[<<"a", "_", "1">> \o JPG].how = "created"

-----------------------------------------------------------------------------
(* Claims about the Batch Run Engine, checked under Spec *)

Wrote(e) == e.dest # None

\* the dialog was shown for the row of the entry / and returned this code
Prompted(e) == e.prompt # None
Answered(e, code) == e.prompt = Some(Some(code))

\* the step is one iteration of the row loop
RowStep == Len(trace') = Len(trace) + 1

NewEntry == trace'[Len(trace')]

\* the rows the current run has reached that have output stem s
SameStem(s) == {k \in DOMAIN trace : trace[k].output_stem = Some(s)}

\* C1 as stated: every image file written goes to a path that did not exist,
\* files already there keep their content, and of two rows that yield the same
\* output stem the second row's file is written to <stem>_1<ext> while the
\* first row's file is left intact.
C1_SecondGetsSuffixOne ==
  \A j, k \in DOMAIN trace :
    (/\ j < k
     /\ Wrote(trace[j]) /\ Wrote(trace[k])
     /\ trace[j].output_stem = trace[k].output_stem
     /\ \A m \in SameStem(trace[k].output_stem[1]) : m < k => m = j)
    => /\ trace[k].dest =
            Some(SequenceName(trace[k].output_stem[1], 1, preferred_ext))
       /\ trace[j].dest[1] \in DOMAIN outFiles
       /\ outFiles[trace[j].dest[1]] = Content(trace[j].outcome, trace[j].src)

\* C1 (amended): every image file the run writes goes to a path that did not
\* exist in the output directory at the moment of the write, and no file of the
\* output directory changes; of two rows that yield the same output stem, the
\* second row's file is written to <stem>_1<ext> when the first row's file was
\* written to <stem><ext> and <stem>_1<ext> does not exist yet.
C1_NoOverwrite ==
  [][RowStep =>
       /\ \A n \in DOMAIN outFiles :
            n \in DOMAIN outFiles' /\ outFiles'[n] = outFiles[n]
       /\ Wrote(NewEntry) =>
            LET dest == NewEntry.dest[1]
                stem == NewEntry.output_stem[1]
            IN  /\ dest \notin DOMAIN outFiles
                /\ dest \in DOMAIN outFiles'
                /\ outFiles'[dest] = Content(NewEntry.outcome, NewEntry.src)
                /\ (/\ \E j \in SameStem(stem) :
                         trace[j].dest = Some(SequenceName(stem, 0, preferred_ext))
                    /\ SequenceName(stem, 1, preferred_ext) \notin DOMAIN outFiles)
                   => dest = SequenceName(stem, 1, preferred_ext)]_vars

\* two rows of a run with the same output stem: the first wrote <stem><ext>,
\* the second <stem>_1<ext>, and both files are in the output directory
C1_Witness ==
  \E j, k \in DOMAIN trace :
    /\ j < k
    /\ trace[j].output_stem = trace[k].output_stem
    /\ trace[j].dest = Some(SequenceName(trace[j].output_stem[1], 0, preferred_ext))
    /\ trace[k].dest = Some(SequenceName(trace[j].output_stem[1], 1, preferred_ext))
    /\ outFiles[trace[j].dest[1]] = Content(trace[j].outcome, trace[j].src)
    /\ outFiles[trace[k].dest[1]] = Content(trace[k].outcome, trace[k].src)

\* a non-blank rename value was supplied for the row
RenameSupplied(row) ==
  rename_enabled /\ row.newname # NaN /\ Strip(row.newname[1]) # <<>>

Tally(how, supplied) ==
  Cardinality({k \in DOMAIN trace :
                 /\ Wrote(trace[k])
                 /\ trace[k].outcome = how
                 /\ RenameSupplied(rows[trace[k].row]) = supplied})

\* C5: a row for which a file is written is counted in a "renamed" counter if
\* and only if a non-blank rename value was supplied for that row, and in an
\* "original" counter otherwise, whether the file was copied or converted.
C5_TallyRule ==
  pc \in {"rows", "done", "cancelled"} =>
    /\ copied_renamed = Tally("copy", TRUE)
    /\ copied_original = Tally("copy", FALSE)
    /\ converted_renamed = Tally("convert", TRUE)
    /\ converted_original = Tally("convert", FALSE)

\* the image-path field of the row is empty or missing
BlankImagePath(row) == row.img = NaN \/ Strip(row.img[1]) = <<>>

\* C6: for every row with a non-empty image path the output stem is the
\* sanitized rename value when one is supplied and is non-blank after
\* sanitization, and the original stem otherwise; it is never empty.
C6_OutputStemRule ==
  \A k \in DOMAIN trace :
    LET row == rows[trace[k].row]
    IN  ~BlankImagePath(row) =>
          /\ trace[k].output_stem =
               Some(IF RenameSupplied(row) /\ sanitize_filename(row.newname[1]) # <<>>
                      THEN sanitize_filename(row.newname[1])
                      ELSE trace[k].original_stem[1])
          /\ trace[k].output_stem # Some(<<>>)

\* C7: a row whose image-path field is missing, empty or whitespace-only is
\* recorded as not-found, no file is written for it and the Resolver is not
\* called for it.
C7_BlankImagePath ==
  \A k \in DOMAIN trace :
    BlankImagePath(rows[trace[k].row]) =>
      /\ ~trace[k].resolved
      /\ ~Wrote(trace[k])
      /\ \E n \in DOMAIN not_found_rows : not_found_rows[n] = trace[k].row

\* the stem of the entry is in the index and has no candidate of the
\* preferred extension
FallbackOnly(e) ==
  /\ e.original_stem # None
  /\ e.original_stem[1] \in DOMAIN image_index
  /\ PreferredAt(image_index[e.original_stem[1]]) = {}

\* C8: under fallback policy "none", a row whose stem is in the index with no
\* candidate of the preferred extension is appended to the not-found rows; no
\* dialog is shown, no file is created and the four counters do not change.
C8_FallbackNone ==
  [][(RowStep /\ fallback_mode = "none" /\ FallbackOnly(NewEntry)) =>
       /\ not_found_rows' = Append(not_found_rows, i)
       /\ ~Prompted(NewEntry)
       /\ ~Wrote(NewEntry)
       /\ outFiles' = outFiles
       /\ counters' = counters
       /\ pc' = "rows" /\ i' = i + 1]_vars

\* a fallback was found for the last row under policy "none", with the preview
\* setting that would show the dialog under policy "convert"
C8_Witness ==
  /\ fallback_mode = "none"
  /\ preview_toggle = ShowPreview
  /\ trace # <<>>
  /\ trace[Len(trace)].was_fallback = Some(TRUE)
  /\ FallbackOnly(trace[Len(trace)])
  /\ not_found_rows # <<>>
  /\ not_found_rows[Len(not_found_rows)] = trace[Len(trace)].row

\* C9: a cancel decision ends the run at once: nothing is written for the row
\* being decided, the counters and the files written so far stay as they are,
\* and no later row is processed.
C9_Cancel ==
  [][/\ (RowStep /\ Answered(NewEntry, CancelCode)) =>
          /\ pc' = "cancelled"
          /\ ~Wrote(NewEntry)
          /\ outFiles' = outFiles
          /\ counters' = counters
          /\ not_found_rows' = not_found_rows
     /\ pc = "cancelled" =>
          \/ /\ pc' = "cancelled"
             /\ UNCHANGED <<trace, i, counters, not_found_rows, outFiles>>
          \/ runsLeft' = runsLeft - 1]_vars

\* the run was cancelled at its second row; the file of the first row is in
\* the output directory and counted
C9_Witness ==
  /\ pc = "cancelled"
  /\ Len(trace) = 2
  /\ Answered(trace[2], CancelCode)
  /\ Wrote(trace[1])
  /\ trace[1].dest[1] \in DOMAIN outFiles
  /\ copied_original + copied_renamed + converted_original + converted_renamed = 1

FirstFallback(k) ==
  /\ trace[k].was_fallback = Some(TRUE)
  /\ \A j \in 1..(k - 1) : trace[j].was_fallback # Some(TRUE)

\* C10: once the user answers "convert all", that row and every later fallback
\* row of the run are converted with no further prompt; the choice does not
\* carry over: in every run, also the run after one in which "convert all" was
\* chosen, the first fallback row is prompted for.
C10_ConvertAllScope ==
  /\ \A j \in DOMAIN trace :
       Answered(trace[j], ConvertAllCode) =>
         /\ trace[j].outcome = "convert" /\ Wrote(trace[j])
         /\ \A k \in DOMAIN trace :
              k > j => /\ ~Prompted(trace[k])
                       /\ trace[k].was_fallback = Some(TRUE) =>
                            trace[k].outcome = "convert" /\ Wrote(trace[k])
  /\ (fallback_mode = "convert" /\ preview_toggle = ShowPreview) =>
       \A k \in DOMAIN trace : FirstFallback(k) => Prompted(trace[k])

\* the run after a run that ended in convert-all mode: its first fallback row
\* is prompted for (the answer is "convert all" again) and its second fallback
\* row is converted without a prompt
C10_Witness ==
  /\ prevConvertAll
  /\ \E j, k \in DOMAIN trace :
       /\ j < k
       /\ FirstFallback(j)
       /\ Answered(trace[j], ConvertAllCode)
       /\ trace[k].was_fallback = Some(TRUE)
       /\ ~Prompted(trace[k])
       /\ trace[k].outcome = "convert"

\* C11: every run that processes its last row without being cancelled reaches
\* Finalize and emits the final counters, whether or not any row went
\* unmatched; and the unmatched-rows report is written if and only if at least
\* one row was recorded as not-found.
C11_FinalCounters ==
  pc = "done" =>
    /\ summary = Some([total |-> Len(rows),
                       copied_original |-> copied_original,
                       copied_renamed |-> copied_renamed,
                       converted_original |-> converted_original,
                       converted_renamed |-> converted_renamed,
                       not_found |-> Len(not_found_rows)])
    /\ (ReportName \in DOMAIN outFiles) <=> (not_found_rows # <<>>)

\* the candidate lists of an index without the files of the output directory
SourcePart(index) ==
  [s \in {t \in DOMAIN index : \E k \in 1..Len(index[t]) : index[t][k].dir # "o"} |->
     SelectSeq(index[s], LAMBDA f : f.dir # "o")]

\* the run that has just ended repeats the previous one: both went through all
\* their rows, the source files were enumerated in the same order and every
\* prompt, if any, was answered the same way
Reran ==
  /\ pc = "done"
  /\ prevRun # None
  /\ prevRun[1].pc = "done"
  /\ SourcePart(image_index) = SourcePart(prevRun[1].image_index)
  /\ \A k \in DOMAIN trace : trace[k].prompt = prevRun[1].trace[k].prompt

SameOutcome ==
  /\ \A k \in DOMAIN trace :
       /\ trace[k].src = prevRun[1].trace[k].src
       /\ trace[k].was_fallback = prevRun[1].trace[k].was_fallback
       /\ trace[k].outcome = prevRun[1].trace[k].outcome
  /\ counters = prevRun[1].counters
  /\ not_found_rows = prevRun[1].not_found_rows

\* C12: a second run with the same rows, configuration, decisions and source
\* files, for every placement of the output directory (also inside the base
\* folder), resolves every row to the same source file with the same
\* is_fallback flag and ends with the same four counters and the same
\* not-found rows as the first run.
C12_RerunIdempotent == Reran => SameOutcome

\* the same for an output directory that is not inside the base folder
C12_OutsideBase ==
  (Reran /\ ~Under(out_edit, Strip(base_edit))) => SameOutcome

\* the step is a press of Run
RunPressed == runsLeft' = runsLeft - 1

\* C13: when run is invoked with no dataset loaded, with no image-path column
\* selected, with the output directory unset or blank, or with the base folder
\* unset, the run does not start: no row is processed, no counter is touched
\* and nothing is created on disk (no output directory, no log file, no image,
\* no report).
C13_StartValidation ==
  [][/\ (/\ RunPressed
         /\ \/ df = None
            \/ image_col = <<>>
            \/ Strip(out_edit) = <<>>
            \/ Strip(base_edit) = <<>>)
        => /\ pc' = "rejected"
           /\ UNCHANGED <<disk, counters, not_found_rows, rows, i, trace,
                          summary, image_index>>
     /\ pc = "rejected" => (RunPressed \/ UNCHANGED vars)]_vars

\* Run was pressed on a form with a dataset of two rows, an image column and an
\* output folder that does not exist yet, but no base folder: the run was
\* rejected and the output folder still does not exist
C13_Witness ==
  /\ pc = "rejected"
  /\ df # None /\ Len(df[1]) = 2
  /\ image_col # <<>>
  /\ out_edit = <<"o">>
  /\ base_edit = <<>>
  /\ ~outExists /\ outFiles = <<>>
  /\ trace = <<>> /\ i = 0

\* Run is pressed on a form that names a dataset, an image column, a base
\* folder and an output folder
FormFilled == ~MissingInput /\ Strip(base_edit) # <<>>

\* C14 as stated: when the base folder or the output folder given to a run
\* does not exist on disk, the run does not start: no row is processed and no
\* image file is written; a missing output folder is not silently created.
C14_MissingFolderRejected ==
  [][(/\ RunPressed /\ FormFilled
      /\ (~BaseExists(Strip(base_edit)) \/ ~outExists))
     => /\ pc' = "rejected"
        /\ UNCHANGED <<disk, counters, not_found_rows, rows, i, trace>>]_vars

\* C14 (amended): when the base folder does not exist on disk the run does not
\* start: no row is processed and nothing is written or created.  A missing
\* output folder is not an error: the run creates it, opens its log file in it
\* and goes on to the rows.
C14_MissingFolders ==
  [][/\ (RunPressed /\ FormFilled /\ ~BaseExists(Strip(base_edit)))
        => /\ pc' = "rejected"
           /\ UNCHANGED <<disk, counters, not_found_rows, rows, i, trace,
                          image_index>>
     /\ (RunPressed /\ FormFilled /\ BaseExists(Strip(base_edit)) /\ ~outExists)
        => /\ pc' = "rows"
           /\ outExists' /\ outMade'
           /\ DOMAIN outFiles' = {LogName}
     /\ pc = "rejected" => (RunPressed \/ UNCHANGED vars)]_vars

\* a run that found no output folder has created it and written the file of a
\* row into it
C14_Witness ==
  /\ outMade /\ outExists
  /\ pc = "done"
  /\ \E k \in DOMAIN trace :
       /\ Wrote(trace[k])
       /\ trace[k].dest[1] \in DOMAIN outFiles

\* Run was pressed with a base folder that does not exist: rejected, and the
\* output folder, missing too, was not created
C14_BaseMissing ==
  /\ pc = "rejected"
  /\ FormFilled
  /\ ~BaseExists(Strip(base_edit))
  /\ ~outExists /\ ~outMade

CounterSum ==
  copied_original + copied_renamed + converted_original + converted_renamed

\* the rows the loop of the current run has gone through
RowsProcessed == i - 1

\* the rows of the current run the user chose to skip
Skipped == {k \in DOMAIN trace : trace[k].outcome = "skip"}

\* the image files the current run has created in the output directory
ImagesCreated ==
  {n \in DOMAIN outFiles :
     \E k \in DOMAIN trace :
       /\ trace[k].dest = Some(n)
       /\ outFiles[n] = Content(trace[k].outcome, trace[k].src)}

\* C15 as stated: at every per-row boundary of a run, and at its end when it
\* is not cancelled, the four counters plus the number of not-found rows equal
\* the number of rows processed, for every fallback policy and every sequence
\* of decisions (convert, convert all, skip); and the sum of the four counters
\* equals the number of image files the run has created.
C15_EveryRowCounted ==
  pc \in {"rows", "done"} =>
    /\ CounterSum + Len(not_found_rows) = RowsProcessed
    /\ CounterSum = Cardinality(ImagesCreated)

\* C15 (amended): at every per-row boundary of a run, and at its end when it
\* is not cancelled, the four counters plus the number of not-found rows plus
\* the number of rows the user skipped equal the number of rows processed; no
\* row is both counted and not-found; and the sum of the four counters equals
\* the number of image files the run has created.
C15_RowAccounting ==
  pc \in {"rows", "done"} =>
    /\ CounterSum + Len(not_found_rows) + Cardinality(Skipped) = RowsProcessed
    /\ \A k \in DOMAIN trace :
         Wrote(trace[k]) =>
           \A n \in DOMAIN not_found_rows : not_found_rows[n] # trace[k].row
    /\ CounterSum = Cardinality(ImagesCreated)
    /\ CounterSum = Cardinality({k \in DOMAIN trace : Wrote(trace[k])})

\* a run of two rows has ended: the user skipped the first fallback and had
\* the second converted, so one row is counted and one is in no total
C15_Witness ==
  /\ pc = "done"
  /\ Len(trace) = 2
  /\ Answered(trace[1], SkipCode)
  /\ Answered(trace[2], ConvertCode) /\ Wrote(trace[2])
  /\ CounterSum = 1
  /\ not_found_rows = <<>>

\* C16: in interactive mode (fallback policy "convert" with the preview on) a
\* fallback file is converted and written only if the user's decision for that
\* row was "convert" or "convert all", or "convert all" was chosen for an
\* earlier row of the same run; every other outcome of the prompt, closing the
\* dialog without pressing a button included, writes no file for that row.
C16_ExplicitConsent ==
  (fallback_mode = "convert" /\ preview_toggle = ShowPreview) =>
    \A k \in DOMAIN trace :
      (trace[k].was_fallback = Some(TRUE) /\ Wrote(trace[k])) =>
        \/ Answered(trace[k], ConvertCode)
        \/ Answered(trace[k], ConvertAllCode)
        \/ \E j \in 1..(k - 1) : Answered(trace[j], ConvertAllCode)

====
